---- MODULE Spec2Model ----
(***************************************************************************)
(* The two mock services of the flower shop: the analytics service        *)
(* (src/analytics-service/index.js) and the notification service          *)
(* (src/notification-service/index.js).  Each keeps one module-level      *)
(* array and serves it through synchronous express handlers.              *)
(*                                                                         *)
(* Strings of the source that are not ASCII are transliterated:           *)
(*   "Rozy" = 'Розы', "Tyulpany" = 'Тюльпаны',                             *)
(*   "Novaya postavka roz" = 'Новая поставка роз'.                         *)
(***************************************************************************)
EXTENDS Integers, Sequences, FiniteSets, TLC

VARIABLES
    salesData,      \* analytics: the module-level array salesData
    notifications,  \* notification: the module-level array notifications
    inherited,      \* analytics: totalQuantity/totalAmount properties that the
                    \* product fold has written on objects inherited by {}
    inflight,       \* per client, the request sent and not yet handled
    lastResp,       \* the response written by the last handler that ran
    postedSales,    \* history: bodies of the sale POSTs, in handling order
    postedNotifs    \* history: bodies of the notification POSTs, in handling order

vars == <<salesData, notifications, inherited, inflight, lastResp,
          postedSales, postedNotifs>>

-----------------------------------------------------------------------------
(* Bounds *)

\* at most this many POSTs (both services together) are issued in a run
MaxPosts == 2

\* longest record sequence the fold-only specification starts from
MaxLen == 3

Clients == {"c1", "c2"}

-----------------------------------------------------------------------------
(* JavaScript values.  A number is the fraction n/d in lowest terms. *)

Undef == [t |-> "undefined", n |-> 0, d |-> 1, s |-> ""]
NaN == [t |-> "NaN", n |-> 0, d |-> 1, s |-> ""]
Infinity == [t |-> "Infinity", n |-> 0, d |-> 1, s |-> ""]
Null == [t |-> "null", n |-> 0, d |-> 1, s |-> ""]
Num(x) == [t |-> "number", n |-> x, d |-> 1, s |-> ""]
Frac(x, y) == [t |-> "number", n |-> x, d |-> y, s |-> ""]
Str(x) == [t |-> "string", n |-> 0, d |-> 1, s |-> x]

RECURSIVE Gcd(_, _)
Gcd(a, b) == IF b = 0 THEN a ELSE Gcd(b, a % b)

\* sum + sale.amount: a number plus undefined, or anything plus NaN, is NaN
JsAdd(a, b) ==
    IF a.t = "number" /\ b.t = "number"
    THEN LET num == a.n * b.d + b.n * a.d
             den == a.d * b.d
             g == Gcd(IF num < 0 THEN -num ELSE num, den)
         IN  Frac(num \div g, den \div g)
    ELSE NaN

\* mutant: Math.floor(totalSales / salesData.length)
JsDivFloor(a, len) ==
    IF a.t # "number" THEN NaN
    ELSE IF len = 0 THEN (IF a.n = 0 THEN NaN ELSE Infinity)
    ELSE Frac(a.n \div (a.d * len), 1)

\* totalSales / salesData.length: 0/0 is NaN, x/0 is Infinity
JsDiv(a, len) ==
    IF a.t # "number" THEN NaN
    ELSE IF len = 0 THEN (IF a.n = 0 THEN NaN ELSE Infinity)
    ELSE LET den == a.d * len
             g == Gcd(IF a.n < 0 THEN -a.n ELSE a.n, den)
         IN  Frac(a.n \div g, den \div g)

\* acc[sale.product]: the property key a value is converted to
ToPropertyKey(v) == IF v.t = "string" THEN v.s ELSE v.t

\* res.json on a number: JSON has no NaN and no Infinity, both are written null
JsonNumber(v) == IF v.t \in {"NaN", "Infinity"} THEN Null ELSE v

\* const { a, b } = req.body: a field the body lacks is undefined
Field(body, name) == IF name \in DOMAIN body THEN body[name] ELSE Undef

-----------------------------------------------------------------------------
(* The wall clock read by new Date() *)

Instants ==
    { [date |-> "2024-01-17", time |-> "09:00:00.000Z"],
      [date |-> "2024-01-18", time |-> "21:30:00.000Z"] }

ToISOString(i) == Str(i.date \o "T" \o i.time)

\* new Date().toISOString().split('T')[0]
DatePart(i) == Str(i.date)

-----------------------------------------------------------------------------
(* The stores as the modules create them *)

\* mutant: the store starts with the first fixture only
SalesSeedOneFixture ==
    << [id |-> 1, product |-> Str("Rozy"), quantity |-> Num(15),
        amount |-> Num(7500), date |-> Str("2024-01-15")] >>

\* mutant: the store starts empty
SalesSeedEmpty == <<>>

SalesSeed ==
    << [id |-> 1, product |-> Str("Rozy"), quantity |-> Num(15),
        amount |-> Num(7500), date |-> Str("2024-01-15")],
       [id |-> 2, product |-> Str("Tyulpany"), quantity |-> Num(25),
        amount |-> Num(5000), date |-> Str("2024-01-16")] >>

NotificationsSeed ==
    << [id |-> 1, message |-> Str("Novaya postavka roz"), type |-> Str("supply"),
        timestamp |-> Str("2024-01-15T10:30:00.000Z")] >>

\* names that {} inherits from Object.prototype with a truthy value
InheritedKeys == {"toString"}

InheritedInit ==
    [k \in InheritedKeys |-> [totalQuantity |-> Undef, totalAmount |-> Undef]]

-----------------------------------------------------------------------------
(* Requests *)

EmptyBody == <<>>

SaleBodies ==
    { [product |-> Str("Rozy"), quantity |-> Num(15), amount |-> Num(7500)],
      [product |-> Str("toString"), quantity |-> Num(3), amount |-> Num(100)],
      [product |-> Str("Rozy"), quantity |-> Num(3)],
      EmptyBody }

NotificationBodies ==
    { [message |-> Str("Zakaz oplachen"), type |-> Str("alert")],
      EmptyBody }

Req(svc, method, path, body) ==
    [svc |-> svc, method |-> method, path |-> path, body |-> body]

GetRequests ==
    { Req("analytics", "GET", "/analytics/sales", EmptyBody),
      Req("analytics", "GET", "/analytics/products", EmptyBody),
      Req("analytics", "GET", "/health", EmptyBody),
      Req("notification", "GET", "/notifications", EmptyBody),
      Req("notification", "GET", "/health", EmptyBody) }

PostRequests ==
    { Req("analytics", "POST", "/analytics/sales", b) : b \in SaleBodies }
    \cup { Req("notification", "POST", "/notifications", b) : b \in NotificationBodies }

NoReq == Req("none", "none", "none", EmptyBody)

NoResp == [req |-> NoReq, status |-> 0, body |-> <<>>]

PostsIssued ==
    Len(postedSales) + Len(postedNotifs)
    + Cardinality({c \in Clients : inflight[c].method = "POST"})

Waiting(c, svc, method, path) ==
    /\ inflight[c].svc = svc
    /\ inflight[c].method = method
    /\ inflight[c].path = path

Respond(c, status, body) ==
    /\ lastResp' = [req |-> inflight[c], status |-> status, body |-> body]
    /\ inflight' = [inflight EXCEPT ![c] = NoReq]

-----------------------------------------------------------------------------
(* Analytics: the aggregations *)

\* salesData.reduce((sum, sale) => sum + sale[field], 0)
RECURSIVE ReduceSum(_, _, _, _)
ReduceSum(s, field, i, sum) ==
    IF i > Len(s) THEN sum
    ELSE ReduceSum(s, field, i + 1, JsAdd(sum, s[i][field]))

\* mutant: the fold stops one record early
TotalOfSkipLast(s, field) == ReduceSum(SubSeq(s, 1, Len(s) - 1), field, 1, Num(0))

TotalOf(s, field) == ReduceSum(s, field, 1, Num(0))

\* mutant: salesCount is the count taken when the module was loaded
SalesStatsCachedCount(s) ==
    LET totalSales == TotalOf(s, "amount")
        totalQuantity == TotalOf(s, "quantity")
    IN  [totalSales |-> JsonNumber(totalSales),
         totalQuantity |-> JsonNumber(totalQuantity),
         averageSale |-> JsonNumber(JsDiv(totalSales, Len(s))),
         salesCount |-> Len(SalesSeed),
         salesData |-> s]

SalesStats(s) ==
    LET totalSales == TotalOf(s, "amount")
        totalQuantity == TotalOf(s, "quantity")
    IN  [totalSales |-> JsonNumber(totalSales),
         totalQuantity |-> JsonNumber(totalQuantity),
         averageSale |-> JsonNumber(JsDiv(totalSales, Len(s))),
         salesCount |-> Len(s),
         salesData |-> s]

\* mutant: the group is assigned (=) where the reducer accumulates (+=)
ProductStepOverwrite(acc, sale) ==
    LET k == ToPropertyKey(sale.product)
        set(g) == [totalQuantity |-> JsAdd(Num(0), sale.quantity),
                   totalAmount |-> JsAdd(Num(0), sale.amount)]
    IN  IF k \in DOMAIN acc.own
        THEN [acc EXCEPT !.own[k] = set(@)]
        ELSE IF k \in InheritedKeys
        THEN [acc EXCEPT !.inh[k] = set(@)]
        ELSE [acc EXCEPT !.own = (k :> set(Undef)) @@ @]

\* one call of the reducer of /analytics/products; acc.own are the object's
\* own properties, acc.inh the properties written on inherited objects
ProductStep(acc, sale) ==
    LET k == ToPropertyKey(sale.product)
        bump(g) == [totalQuantity |-> JsAdd(g.totalQuantity, sale.quantity),
                    totalAmount |-> JsAdd(g.totalAmount, sale.amount)]
    IN  IF k \in DOMAIN acc.own
        THEN [acc EXCEPT !.own[k] = bump(@)]
        ELSE IF k \in InheritedKeys
        THEN [acc EXCEPT !.inh[k] = bump(@)]
        ELSE [acc EXCEPT !.own =
                (k :> bump([totalQuantity |-> Num(0), totalAmount |-> Num(0)])) @@ @]

RECURSIVE ReduceProducts(_, _, _)
ReduceProducts(s, i, acc) ==
    IF i > Len(s) THEN acc
    ELSE ReduceProducts(s, i + 1, ProductStep(acc, s[i]))

ProductStats(s, inh) == ReduceProducts(s, 1, [own |-> <<>>, inh |-> inh])

\* res.json(productStats): the own properties, numbers as JSON writes them
ProductReport(own) ==
    [k \in DOMAIN own |->
        [totalQuantity |-> JsonNumber(own[k].totalQuantity),
         totalAmount |-> JsonNumber(own[k].totalAmount)]]

-----------------------------------------------------------------------------
(* Records built by the POST handlers *)

\* mutant: store.unshift(record)
PushFront(store, record) == <<record>> \o store

\* store.push(record)
Push(store, record) == Append(store, record)

\* mutant: the id is the count, without the + 1
NewSaleIdIsCount(store, body, now) ==
    [id |-> Len(store),
     product |-> Field(body, "product"),
     quantity |-> Field(body, "quantity"),
     amount |-> Field(body, "amount"),
     date |-> DatePart(now)]

NewSale(store, body, now) ==
    [id |-> Len(store) + 1,
     product |-> Field(body, "product"),
     quantity |-> Field(body, "quantity"),
     amount |-> Field(body, "amount"),
     date |-> DatePart(now)]

NewNotification(store, body, now) ==
    [id |-> Len(store) + 1,
     message |-> Field(body, "message"),
     type |-> Field(body, "type"),
     timestamp |-> ToISOString(now)]

-----------------------------------------------------------------------------
(* Actions *)

Init ==
    /\ salesData = SalesSeed
    /\ notifications = NotificationsSeed
    /\ inherited = InheritedInit
    /\ inflight = [c \in Clients |-> NoReq]
    /\ lastResp = NoResp
    /\ postedSales = <<>>
    /\ postedNotifs = <<>>

\* a client sends a request; it waits until its handler runs
Send(c) ==
    /\ inflight[c] = NoReq
    /\ \E r \in GetRequests \cup PostRequests :
          /\ r.method = "POST" => PostsIssued < MaxPosts
          /\ inflight' = [inflight EXCEPT ![c] = r]
    /\ UNCHANGED <<salesData, notifications, inherited, lastResp,
                   postedSales, postedNotifs>>

GetSales(c) ==
    /\ Waiting(c, "analytics", "GET", "/analytics/sales")
    /\ Respond(c, 200, SalesStats(salesData))
    /\ UNCHANGED <<salesData, notifications, inherited, postedSales, postedNotifs>>

\* mutant: a body that lacks a required field is answered 400 and not stored
PostSalesValidating(c) ==
    /\ Waiting(c, "analytics", "POST", "/analytics/sales")
    /\ IF {"product", "quantity", "amount"} \subseteq DOMAIN inflight[c].body
       THEN \E now \in Instants :
               LET newSale == NewSale(salesData, inflight[c].body, now)
               IN  /\ salesData' = Push(salesData, newSale)
                   /\ Respond(c, 201, newSale)
                   /\ postedSales' = Append(postedSales, inflight[c].body)
       ELSE /\ Respond(c, 400, [error |-> "invalid"])
            /\ UNCHANGED <<salesData, postedSales>>
    /\ UNCHANGED <<notifications, inherited, postedNotifs>>

PostSales(c) ==
    /\ Waiting(c, "analytics", "POST", "/analytics/sales")
    /\ \E now \in Instants :
          LET newSale == NewSale(salesData, inflight[c].body, now)
          IN  /\ salesData' = Push(salesData, newSale)
              /\ Respond(c, 201, newSale)
    /\ postedSales' = Append(postedSales, inflight[c].body)
    /\ UNCHANGED <<notifications, inherited, postedNotifs>>

GetProducts(c) ==
    /\ Waiting(c, "analytics", "GET", "/analytics/products")
    /\ LET acc == ProductStats(salesData, inherited)
       IN  /\ inherited' = acc.inh
           /\ Respond(c, 200, ProductReport(acc.own))
    /\ UNCHANGED <<salesData, notifications, postedSales, postedNotifs>>

AnalyticsHealth(c) ==
    /\ Waiting(c, "analytics", "GET", "/health")
    /\ Respond(c, 200, [status |-> "OK", service |-> "Analytics Service"])
    /\ UNCHANGED <<salesData, notifications, inherited, postedSales, postedNotifs>>

GetNotifications(c) ==
    /\ Waiting(c, "notification", "GET", "/notifications")
    /\ Respond(c, 200, notifications)
    /\ UNCHANGED <<salesData, notifications, inherited, postedSales, postedNotifs>>

PostNotifications(c) ==
    /\ Waiting(c, "notification", "POST", "/notifications")
    /\ \E now \in Instants :
          LET newNotification == NewNotification(notifications, inflight[c].body, now)
          IN  /\ notifications' = Push(notifications, newNotification)
              /\ Respond(c, 201, newNotification)
    /\ postedNotifs' = Append(postedNotifs, inflight[c].body)
    /\ UNCHANGED <<salesData, inherited, postedSales>>

NotificationHealth(c) ==
    /\ Waiting(c, "notification", "GET", "/health")
    /\ Respond(c, 200, [status |-> "OK", service |-> "Notification Service"])
    /\ UNCHANGED <<salesData, notifications, inherited, postedSales, postedNotifs>>

Next ==
    \E c \in Clients :
        \/ Send(c)
        \/ GetSales(c)
        \/ PostSales(c)
        \/ GetProducts(c)
        \/ AnalyticsHealth(c)
        \/ GetNotifications(c)
        \/ PostNotifications(c)
        \/ NotificationHealth(c)

Spec == Init /\ [][Next]_vars

-----------------------------------------------------------------------------
(* The product fold on its own: the store starts as any sequence of at most *)
(* MaxLen appended sales and only GET /analytics/products is served.        *)

RECURSIVE PushAll(_, _, _)
PushAll(store, bodies, now) ==
    IF bodies = <<>> THEN store
    ELSE PushAll(Push(store, NewSale(store, Head(bodies), now)), Tail(bodies), now)

FoldBodies ==
    { [product |-> Str("Rozy"), quantity |-> Num(15), amount |-> Num(7500)],
      [product |-> Str("Rozy"), quantity |-> Num(3), amount |-> Num(100)],
      [product |-> Str("Tyulpany"), quantity |-> Num(25), amount |-> Num(5000)],
      [product |-> Str("toString"), quantity |-> Num(3), amount |-> Num(100)],
      EmptyBody }

BodySeqs == UNION { [1..n -> FoldBodies] : n \in 0..MaxLen }

InitFold ==
    /\ \E bodies \in BodySeqs, now \in Instants :
          salesData = PushAll(<<>>, bodies, now)
    /\ notifications = NotificationsSeed
    /\ inherited = InheritedInit
    /\ inflight = [c \in Clients |-> NoReq]
    /\ lastResp = NoResp
    /\ postedSales = <<>>
    /\ postedNotifs = <<>>

SendGetProducts(c) ==
    /\ inflight[c] = NoReq
    /\ inflight' = [inflight EXCEPT
                       ![c] = Req("analytics", "GET", "/analytics/products", EmptyBody)]
    /\ UNCHANGED <<salesData, notifications, inherited, lastResp,
                   postedSales, postedNotifs>>

NextFold ==
    \E c \in Clients :
        \/ SendGetProducts(c)
        \/ GetProducts(c)

SpecFold == InitFold /\ [][NextFold]_vars

-----------------------------------------------------------------------------
(* Vocabulary of the properties *)

IsResp(method, path) ==
    /\ lastResp.req.method = method
    /\ lastResp.req.path = path

IsSalesStatsResp == IsResp("GET", "/analytics/sales")
IsProductsResp == IsResp("GET", "/analytics/products")
IsSalePostResp == IsResp("POST", "/analytics/sales")
IsNotificationPostResp == IsResp("POST", "/notifications")
IsNotificationListResp == IsResp("GET", "/notifications")

RozyBody == [product |-> Str("Rozy"), quantity |-> Num(15), amount |-> Num(7500)]

IdsByPosition(store) == \A k \in 1..Len(store) : store[k].id = k

IdsDistinct(store) ==
    \A i, j \in 1..Len(store) : i # j => store[i].id # store[j].id

Last(s) == s[Len(s)]

\* the arithmetic sum of a field over a set of positions of a sequence of
\* records, taken from the last position down
RECURSIVE IntSum(_, _, _)
IntSum(s, field, idx) ==
    IF idx = {} THEN 0
    ELSE LET i == CHOOSE m \in idx : \A o \in idx : o <= m
         IN  s[i][field].n + IntSum(s, field, idx \ {i})

AllIntegers(s, field, idx) ==
    \A i \in idx : s[i][field].t = "number" /\ s[i][field].d = 1

\* what a client reads as the sum: the number, or null when some term is missing
SumRead(s, field, idx) ==
    IF AllIntegers(s, field, idx) THEN Num(IntSum(s, field, idx)) ELSE Null

-----------------------------------------------------------------------------
(* C1: in both services a POST gives the new record the id (number of      *)
(* records before the append) + 1, so in every reachable state the ids of  *)
(* a store are pairwise distinct and the record at position k has id k.    *)

C1_IdsInv ==
    /\ IdsByPosition(salesData) /\ IdsDistinct(salesData)
    /\ IdsByPosition(notifications) /\ IdsDistinct(notifications)

C1_AppendStep ==
    /\ Len(postedSales') > Len(postedSales) =>
          /\ Last(salesData').id = Len(salesData) + 1
          /\ lastResp'.body.id = Len(salesData) + 1
    /\ Len(postedNotifs') > Len(postedNotifs) =>
          /\ Last(notifications').id = Len(notifications) + 1
          /\ lastResp'.body.id = Len(notifications) + 1

\* C1: every store keeps id k at position k, and every append assigns count + 1
C1_IdAssignment == []C1_IdsInv /\ [][C1_AppendStep]_vars

C1_Witness ==
    /\ Len(postedSales) = 1
    /\ Len(postedNotifs) = 1
    /\ Last(salesData).id = 3
    /\ Last(notifications).id = 2

-----------------------------------------------------------------------------
(* C6 as amended: before any request is handled the analytics store holds  *)
(* exactly two fixture records and the notification store exactly one.     *)

NothingHandled == lastResp = NoResp /\ postedSales = <<>> /\ postedNotifs = <<>>

\* C6 (amended): two fixture sales and one fixture notification at start
C6_SeedSizes ==
    NothingHandled => Len(salesData) = 2 /\ Len(notifications) = 1

\* C6 as stated: each store starts with exactly one fixture record
C6_OneFixtureEach ==
    NothingHandled => Len(salesData) = 1 /\ Len(notifications) = 1

C6_Witness ==
    /\ NothingHandled
    /\ \A c \in Clients : inflight[c] = NoReq
    /\ salesData[2].product = Str("Tyulpany")

-----------------------------------------------------------------------------
(* C10: the analytics store is never empty and never shrinks, so the       *)
(* divisor salesData.length of GET /analytics/sales is never zero: every   *)
(* sales response counts at least one record and its averageSale is null   *)
(* only when totalSales itself is no number.                               *)

C10_NonEmptyInv ==
    /\ Len(salesData) >= 1
    /\ IsSalesStatsResp =>
          /\ lastResp.body.salesCount >= 1
          /\ lastResp.body.totalSales.t = "number"
                => lastResp.body.averageSale.t = "number"

C10_NeverShrinks == Len(salesData') >= Len(salesData)

\* C10: salesData is never empty and never shrinks; the divisor is never zero
C10_NeverEmpty == []C10_NonEmptyInv /\ [][C10_NeverShrinks]_vars

C10_Witness ==
    /\ IsSalesStatsResp
    /\ Len(postedSales) = 1
    /\ lastResp.body.salesCount = 3
    /\ lastResp.body.averageSale.t = "number"

-----------------------------------------------------------------------------
(* C2 as amended: from the initial store, one POST /analytics/sales with   *)
(* product "Rozy", quantity 15, amount 7500 followed by GET                *)
(* /analytics/sales yields totalSales = 20000, salesCount = 3 and          *)
(* averageSale = 20000/3.                                                  *)

RozyPostedThenStats == IsSalesStatsResp /\ postedSales = <<RozyBody>>

\* C2 (amended): totalSales 20000, salesCount 3, averageSale 20000/3
C2_StatsAfterRozy ==
    RozyPostedThenStats =>
        /\ lastResp.body.totalSales = Num(20000)
        /\ lastResp.body.salesCount = 3
        /\ lastResp.body.averageSale = Frac(20000, 3)

\* C2 as stated: totalSales = 15000, salesCount = 2, averageSale = 7500
C2_StatsAsStated ==
    RozyPostedThenStats =>
        /\ lastResp.body.totalSales = Num(15000)
        /\ lastResp.body.salesCount = 2
        /\ lastResp.body.averageSale = Num(7500)

C2_Witness == RozyPostedThenStats /\ lastResp.status = 200

-----------------------------------------------------------------------------
(* C3 as amended: after N POST /analytics/sales to a freshly started       *)
(* service, GET /analytics/sales reports salesCount = N + 2 and            *)
(* totalQuantity = 40 + the sum of the appended quantities; when an        *)
(* appended quantity is missing, totalQuantity is null.                    *)

PostedQuantities == [i \in DOMAIN postedSales |-> [quantity |-> Field(postedSales[i], "quantity")]]

PostedQuantitySum == IntSum(PostedQuantities, "quantity", DOMAIN postedSales)

AllPostedQuantitiesGiven == AllIntegers(PostedQuantities, "quantity", DOMAIN postedSales)

\* C3 (amended): salesCount = N + 2, totalQuantity = 40 + appended quantities
C3_StatsCountSeed ==
    IsSalesStatsResp =>
        /\ lastResp.body.salesCount = Len(postedSales) + 2
        /\ lastResp.body.totalQuantity =
              IF AllPostedQuantitiesGiven THEN Num(40 + PostedQuantitySum) ELSE Null

\* C3 as stated: totalQuantity is the sum of the appended quantities and
\* salesCount is N
C3_StatsAsStated ==
    IsSalesStatsResp /\ AllPostedQuantitiesGiven =>
        /\ lastResp.body.salesCount = Len(postedSales)
        /\ lastResp.body.totalQuantity = Num(PostedQuantitySum)

C3_Witness ==
    /\ IsSalesStatsResp
    /\ Len(postedSales) = 2
    /\ AllPostedQuantitiesGiven
    /\ lastResp.body.totalQuantity = Num(40 + PostedQuantitySum)

-----------------------------------------------------------------------------
(* C4: GET /analytics/products returns a mapping whose keys are exactly    *)
(* the distinct product values of the store, each with the sums of         *)
(* quantity and amount over the records of that product.                   *)

WithProduct(k) ==
    {i \in 1..Len(salesData) : ToPropertyKey(salesData[i].product) = k}

\* C4: the report's keys are the store's products, each with its sums
C4_ProductGroups ==
    IsProductsResp =>
        /\ DOMAIN lastResp.body =
              {ToPropertyKey(salesData[i].product) : i \in 1..Len(salesData)}
        /\ \A k \in DOMAIN lastResp.body :
              /\ lastResp.body[k].totalQuantity =
                    SumRead(salesData, "quantity", WithProduct(k))
              /\ lastResp.body[k].totalAmount =
                    SumRead(salesData, "amount", WithProduct(k))

-----------------------------------------------------------------------------
(* C5: each store is append-only: it is the seed followed by the POSTed    *)
(* records in handling order, no step changes or removes a record, a GET   *)
(* leaves both stores as they are, and the list a GET returns is the whole *)
(* store in insertion order.                                               *)

C5_StoreIsSeedThenPosted ==
    /\ Len(salesData) = Len(SalesSeed) + Len(postedSales)
    /\ SubSeq(salesData, 1, Len(SalesSeed)) = SalesSeed
    /\ \A i \in DOMAIN postedSales :
          LET r == salesData[Len(SalesSeed) + i]
          IN  /\ r.product = Field(postedSales[i], "product")
              /\ r.quantity = Field(postedSales[i], "quantity")
              /\ r.amount = Field(postedSales[i], "amount")
    /\ Len(notifications) = Len(NotificationsSeed) + Len(postedNotifs)
    /\ SubSeq(notifications, 1, Len(NotificationsSeed)) = NotificationsSeed
    /\ \A i \in DOMAIN postedNotifs :
          LET r == notifications[Len(NotificationsSeed) + i]
          IN  /\ r.message = Field(postedNotifs[i], "message")
              /\ r.type = Field(postedNotifs[i], "type")
    /\ IsSalesStatsResp => lastResp.body.salesData = salesData
    /\ IsNotificationListResp => lastResp.body = notifications

C5_Step ==
    /\ Len(salesData') >= Len(salesData)
    /\ SubSeq(salesData', 1, Len(salesData)) = salesData
    /\ Len(notifications') >= Len(notifications)
    /\ SubSeq(notifications', 1, Len(notifications)) = notifications
    /\ lastResp'.req.method = "GET" =>
          salesData' = salesData /\ notifications' = notifications

\* C5: the stores are the seed then the POSTed records; only appends happen
C5_AppendOnly == []C5_StoreIsSeedThenPosted /\ [][C5_Step]_vars

C5_Witness ==
    /\ IsNotificationListResp
    /\ Len(postedNotifs) = 1
    /\ Len(postedSales) = 1
    /\ Len(lastResp.body) = 2

-----------------------------------------------------------------------------
(* C7: a POST whose body omits required fields is not rejected: its        *)
(* handler can always run, answers 201, and grows the store by exactly one *)
(* record whose omitted fields are undefined and whose id is the previous  *)
(* count + 1; no POST is answered otherwise.                               *)

C7_PostAnswered ==
    /\ lastResp.req.method = "POST" => lastResp.status = 201
    /\ \A c \in Clients :
          /\ Waiting(c, "analytics", "POST", "/analytics/sales") => ENABLED PostSales(c)
          /\ Waiting(c, "notification", "POST", "/notifications")
                => ENABLED PostNotifications(c)

\* the step in which the handler of client c's POST to svc runs
HandlesPost(c, svc) ==
    /\ inflight[c].method = "POST"
    /\ inflight[c].svc = svc
    /\ inflight'[c].svc = "none"

OmittedAreUndefined(record, body, fields) ==
    \A f \in fields :
        record[f] = IF f \in DOMAIN body THEN body[f] ELSE Undef

C7_PostStep ==
    \A c \in Clients :
        /\ HandlesPost(c, "analytics") =>
              /\ lastResp'.status = 201
              /\ Len(salesData') = Len(salesData) + 1
              /\ Last(salesData') = lastResp'.body
              /\ lastResp'.body.id = Len(salesData) + 1
              /\ OmittedAreUndefined(lastResp'.body, inflight[c].body,
                                     {"product", "quantity", "amount"})
        /\ HandlesPost(c, "notification") =>
              /\ lastResp'.status = 201
              /\ Len(notifications') = Len(notifications) + 1
              /\ Last(notifications') = lastResp'.body
              /\ lastResp'.body.id = Len(notifications) + 1
              /\ OmittedAreUndefined(lastResp'.body, inflight[c].body,
                                     {"message", "type"})

-----------------------------------------------------------------------------
(* C8: the product report depends only on the multiset of records: for a   *)
(* sales sequence with integer quantity and amount, the fold of            *)
(* GET /analytics/products over any permutation of it yields the same keys *)
(* and the same totalQuantity and totalAmount per key.                     *)

Perms(n) == {p \in [1..n -> 1..n] : \A i, j \in 1..n : p[i] = p[j] => i = j}

Permute(s, p) == [i \in 1..Len(s) |-> s[p[i]]]

AllSalesIntegers ==
    /\ AllIntegers(salesData, "quantity", 1..Len(salesData))
    /\ AllIntegers(salesData, "amount", 1..Len(salesData))

\* C8: every permutation of the records folds to the report that was returned
C8_OrderIndependent ==
    IsProductsResp /\ AllSalesIntegers =>
        \A p \in Perms(Len(salesData)) :
            ProductReport(ProductStats(Permute(salesData, p), inherited).own)
                = lastResp.body

C8_Witness ==
    /\ IsProductsResp
    /\ AllSalesIntegers
    /\ Len(salesData) = 3
    /\ salesData[1].product = Str("Rozy")
    /\ salesData[2].product = Str("Tyulpany")
    /\ salesData[3].product = Str("Rozy")
    /\ salesData[1].quantity # salesData[3].quantity
    /\ lastResp.body["Rozy"].totalQuantity = Num(18)

-----------------------------------------------------------------------------
(* C9: with several clients and any interleaving, every response of        *)
(* GET /analytics/sales is computed from one snapshot of the store: its    *)
(* salesCount is the length of its salesData, its totalSales and           *)
(* totalQuantity are the sums over that same salesData (null when a term   *)
(* is missing), and no two POSTs of a service obtain the same id.          *)

\* C9: a sales response agrees with its own salesData; POST ids never repeat
C9_Snapshot ==
    /\ IsSalesStatsResp =>
          LET b == lastResp.body
              all == 1..Len(b.salesData)
          IN  /\ b.salesCount = Len(b.salesData)
              /\ b.totalSales = SumRead(b.salesData, "amount", all)
              /\ b.totalQuantity = SumRead(b.salesData, "quantity", all)
              /\ b.salesData = salesData
    /\ \A i, j \in (Len(SalesSeed) + 1)..Len(salesData) :
          i # j => salesData[i].id # salesData[j].id
    /\ \A i, j \in (Len(NotificationsSeed) + 1)..Len(notifications) :
          i # j => notifications[i].id # notifications[j].id

C9_Witness ==
    /\ IsSalesStatsResp
    /\ Len(postedSales) = 2
    /\ lastResp.body.salesCount = 4
    /\ \E c \in Clients : inflight[c].svc # "none"

====
